---- MODULE Spec2Model ----
(***************************************************************************)
(* Fully-associative LRU cache simulation of the 24 loop orderings of the  *)
(* kernel X[a][d][c] -= Z[d][b][c] + Y[c][a][d]  (src/cache.py).           *)
(***************************************************************************)
EXTENDS Integers, Sequences, FiniteSets

\* ------------------------------------------------------------------ bounds
MaxN         == 2      \* largest loop bound N explored
MaxLines     == 3      \* largest small cache_lines explored
MaxLineElems == 2      \* largest line_elems explored
BigLines     == 100    \* a cache_lines value that never binds
MaxTag       == 4      \* raw tags fed by the tag-sequence harness: 1..MaxTag
MaxTraceLen  == 5      \* longest raw tag sequence of the harness
MaxRuns      == 3      \* calls of simulate_permutation in the rerun harness

VARIABLES
  N, cache_lines, line_elems,   \* args.N, args.cache_lines, args.line_elems
  plan, ordIdx,                 \* the orderings the driver iterates, and its position
  pc, err,                      \* control position; the exception raised, if any
  vals, ref,                    \* [i1,i2,i3,i4] and the index into access_defs
  cache, misses, accesses,      \* locals of simulate_permutation
  trace, outcomes, evictions,   \* history: tags accessed, HIT/MISS per access, poplefts
  results,                      \* the rows printed by main, in order
  wider                         \* the same run replayed beside it with cache_lines + 1

vars == <<N, cache_lines, line_elems, plan, ordIdx, pc, err, vals, ref,
          cache, misses, accesses, trace, outcomes, evictions, results, wider>>

\* ------------------------------------------------------- sequence helpers
Range(s) == {s[i] : i \in 1..Len(s)}

ContainsSkipLast(c, tag) == \E i \in 1..(Len(c) - 1) : c[i] = tag

\* tag in cache: the linear scan of the deque
Contains(c, tag) == \E i \in 1..Len(c) : c[i] = tag

RemoveAt(s, i) == [k \in 1..(Len(s) - 1) |-> IF k < i THEN s[k] ELSE s[k + 1]]

\* deque.remove(x): removes the first occurrence of x
DequeRemove(c, x) ==
  LET i == CHOOSE k \in 1..Len(c) : c[k] = x /\ \A m \in 1..(k - 1) : c[m] /= x
  IN  RemoveAt(c, i)

\* deque.append(x) on a deque built with maxlen: a full deque drops its left end
DequeAppend(c, x, maxlen) ==
  IF maxlen = 0 THEN c
  ELSE IF Len(c) = maxlen THEN Append(Tail(c), x)
  ELSE Append(c, x)

\* Python's floor division for a non-zero divisor
FloorDiv(x, y) == IF y > 0 THEN x \div y ELSE (0 - x) \div (0 - y)

\* ------------------------------------------------------------ permutations
Labels == <<"a", "b", "c", "d">>

RECURSIVE PermsFrom(_, _)
RECURSIVE Permutations(_)
\* the permutations of s whose first element is s[i], s[i+1], ... in that order
PermsFrom(s, i) ==
  IF i > Len(s) THEN <<>>
  ELSE LET rest == Permutations(RemoveAt(s, i))
       IN  [k \in 1..Len(rest) |-> <<s[i]>> \o rest[k]] \o PermsFrom(s, i + 1)

PermutationsReversed(s) ==
  LET p == IF Len(s) = 0 THEN << <<>> >> ELSE PermsFrom(s, 1)
  IN  [k \in 1..Len(p) |-> p[Len(p) + 1 - k]]

\* itertools.permutations(s): tuples in lexicographic order of input positions
Permutations(s) == IF Len(s) = 0 THEN << <<>> >> ELSE PermsFrom(s, 1)

Orderings == Permutations(Labels)

\* ------------------------------------------------------- address generator
Cube(n) == n * n * n

BaseSquared(arr, n) == CASE arr = "X" -> 0
                         [] arr = "Y" -> n * n
                         [] arr = "Z" -> 2 * n * n

\* base = {'X': 0, 'Y': N**3, 'Z': 2 * N**3}
Base(arr, n) == CASE arr = "X" -> 0
                  [] arr = "Y" -> Cube(n)
                  [] arr = "Z" -> 2 * Cube(n)

AccessCoordSwapped(r, a, b, c, d) ==
  CASE r = 1 -> <<c, a, d>>
    [] r = 2 -> <<d, b, c>>
    [] r = 3 -> <<a, d, c>>
    [] r = 4 -> <<a, c, d>>

\* access_defs: the array and the coordinate triple of the r-th reference
AccessArr(r) == <<"Y", "Z", "X", "X">>[r]

AccessCoord(r, a, b, c, d) ==
  CASE r = 1 -> <<c, a, d>>
    [] r = 2 -> <<d, b, c>>
    [] r = 3 -> <<a, d, c>>
    [] r = 4 -> <<a, d, c>>

\* idx = dict(zip(order, vals)); idx[label]
Idx(order, v, label) == v[CHOOSE k \in 1..Len(order) : order[k] = label]

\* row-major flattening of the coordinate triple ijk of array arr
FlatAddr(arr, ijk, n) == Base(arr, n) + ((ijk[1] * n + ijk[2]) * n + ijk[3])

\* addr = base[arr] + ((i * N + j) * N + k) for reference r of the iteration
Addr(order, v, r, n) ==
  LET a == Idx(order, v, "a")
      b == Idx(order, v, "b")
      c == Idx(order, v, "c")
      d == Idx(order, v, "d")
      ijk == AccessCoord(r, a, b, c, d)
  IN  FlatAddr(AccessArr(r), ijk, n)

\* tag = addr // line_elems
Tag(addr, le) == FloorDiv(addr, le)

NextValsOuterFastest(v, n) ==
  IF v[1] + 1 < n THEN <<v[1] + 1, v[2], v[3], v[4]>>
  ELSE IF v[2] + 1 < n THEN <<0, v[2] + 1, v[3], v[4]>>
  ELSE IF v[3] + 1 < n THEN <<0, 0, v[3] + 1, v[4]>>
  ELSE <<0, 0, 0, v[4] + 1>>

\* the four nested range(N) loops: the counters that follow v, i4 fastest
NextVals(v, n) ==
  IF v[4] + 1 < n THEN <<v[1], v[2], v[3], v[4] + 1>>
  ELSE IF v[3] + 1 < n THEN <<v[1], v[2], v[3] + 1, 0>>
  ELSE IF v[2] + 1 < n THEN <<v[1], v[2] + 1, 0, 0>>
  ELSE <<v[1] + 1, 0, 0, 0>>

LastVals(v, n) == \A k \in 1..4 : v[k] = n - 1

\* ------------------------------------------------------------- LRU access
LRUAccessNoRefresh(c, tag, lines) ==
  IF ~Contains(c, tag) THEN
    IF Len(c) = lines THEN
      IF c = <<>> THEN [cache |-> c, hit |-> FALSE, popped |-> FALSE, err |-> "IndexError"]
      ELSE [cache |-> DequeAppend(Tail(c), tag, lines), hit |-> FALSE,
            popped |-> TRUE, err |-> "none"]
    ELSE [cache |-> DequeAppend(c, tag, lines), hit |-> FALSE,
          popped |-> FALSE, err |-> "none"]
  ELSE [cache |-> c, hit |-> TRUE, popped |-> FALSE, err |-> "none"]

LRUAccessNoRemove(c, tag, lines) ==
  IF ~Contains(c, tag) THEN
    IF Len(c) = lines THEN
      IF c = <<>> THEN [cache |-> c, hit |-> FALSE, popped |-> FALSE, err |-> "IndexError"]
      ELSE [cache |-> DequeAppend(Tail(c), tag, lines), hit |-> FALSE,
            popped |-> TRUE, err |-> "none"]
    ELSE [cache |-> DequeAppend(c, tag, lines), hit |-> FALSE,
          popped |-> FALSE, err |-> "none"]
  ELSE [cache |-> DequeAppend(c, tag, lines), hit |-> TRUE,
        popped |-> FALSE, err |-> "none"]

LRUAccessPopRight(c, tag, lines) ==
  IF ~Contains(c, tag) THEN
    IF Len(c) = lines THEN
      IF c = <<>> THEN [cache |-> c, hit |-> FALSE, popped |-> FALSE, err |-> "IndexError"]
      ELSE [cache |-> DequeAppend(SubSeq(c, 1, Len(c) - 1), tag, lines), hit |-> FALSE,
            popped |-> TRUE, err |-> "none"]
    ELSE [cache |-> DequeAppend(c, tag, lines), hit |-> FALSE,
          popped |-> FALSE, err |-> "none"]
  ELSE [cache |-> DequeAppend(DequeRemove(c, tag), tag, lines), hit |-> TRUE,
        popped |-> FALSE, err |-> "none"]

LRUAccessHitToFront(c, tag, lines) ==
  IF ~Contains(c, tag) THEN
    IF Len(c) = lines THEN
      IF c = <<>> THEN [cache |-> c, hit |-> FALSE, popped |-> FALSE, err |-> "IndexError"]
      ELSE [cache |-> DequeAppend(Tail(c), tag, lines), hit |-> FALSE,
            popped |-> TRUE, err |-> "none"]
    ELSE [cache |-> DequeAppend(c, tag, lines), hit |-> FALSE,
          popped |-> FALSE, err |-> "none"]
  ELSE [cache |-> <<tag>> \o DequeRemove(c, tag), hit |-> TRUE,
        popped |-> FALSE, err |-> "none"]

LRUAccessEarlyEvict(c, tag, lines) ==
  IF ~Contains(c, tag) THEN
    IF Len(c) = lines - 1 THEN
      IF c = <<>> THEN [cache |-> c, hit |-> FALSE, popped |-> FALSE, err |-> "IndexError"]
      ELSE [cache |-> DequeAppend(Tail(c), tag, lines), hit |-> FALSE,
            popped |-> TRUE, err |-> "none"]
    ELSE [cache |-> DequeAppend(c, tag, lines), hit |-> FALSE,
          popped |-> FALSE, err |-> "none"]
  ELSE [cache |-> DequeAppend(DequeRemove(c, tag), tag, lines), hit |-> TRUE,
        popped |-> FALSE, err |-> "none"]

\* the body of the reference loop on the deque: membership test, eviction
\* of the left end when full, append; or remove and append on a hit
LRUAccess(c, tag, lines) ==
  IF ~Contains(c, tag) THEN
    IF Len(c) = lines THEN
      IF c = <<>> THEN [cache |-> c, hit |-> FALSE, popped |-> FALSE, err |-> "IndexError"]
      ELSE [cache |-> DequeAppend(Tail(c), tag, lines), hit |-> FALSE,
            popped |-> TRUE, err |-> "none"]
    ELSE [cache |-> DequeAppend(c, tag, lines), hit |-> FALSE,
          popped |-> FALSE, err |-> "none"]
  ELSE [cache |-> DequeAppend(DequeRemove(c, tag), tag, lines), hit |-> TRUE,
        popped |-> FALSE, err |-> "none"]

NewMissesOnEvict(m, hit, popped) == IF popped THEN m + 1 ELSE m

NewMissesTwice(m, hit, popped) == IF hit THEN m ELSE m + 2

\* misses += 1 on the miss branch
NewMisses(m, hit, popped) == IF hit THEN m ELSE m + 1

NewAccessesOnMiss(n, hit) == IF hit THEN n ELSE n + 1

\* accesses += 1 after either branch
NewAccesses(n, hit) == n + 1

Outcome(hit) == IF hit THEN "HIT" ELSE "MISS"

EntryCacheKept(prev) == prev

\* cache = deque(maxlen=cache_lines): a fresh, empty deque per call
EntryCache(prev) == <<>>

\* rate = miss / acc if acc else 0, as the fraction <<numerator, denominator>>
Rate(miss, acc) == IF acc /= 0 THEN <<miss, acc>> ELSE <<0, 1>>

\* a simulation at its start: empty deque, zero misses
FreshState == [cache |-> EntryCache(<<>>), misses |-> 0]

\* the access step of the run kept beside the program's, with one more line
WiderStep(w, tag, lines) ==
  LET r == LRUAccess(w.cache, tag, lines + 1)
  IN  [cache |-> r.cache, misses |-> NewMisses(w.misses, r.hit, r.popped)]

\* ------------------------------------------------------------ the program
ArgValues(max) == {-1, 0} \cup (1..max)

ValidConfig == N >= 1 /\ cache_lines >= 1 /\ line_elems >= 1

\* main after parse_args: any integers may have been given
Init ==
  /\ N \in ArgValues(MaxN)
  /\ cache_lines \in ArgValues(MaxLines) \cup {BigLines}
  /\ line_elems \in ArgValues(MaxLineElems)
  /\ plan = Orderings
  /\ ordIdx = 1
  /\ pc = "main"
  /\ err = "none"
  /\ vals = <<0, 0, 0, 0>>
  /\ ref = 1
  /\ cache = <<>>
  /\ misses = 0
  /\ accesses = 0
  /\ trace = <<>>
  /\ outcomes = <<>>
  /\ evictions = 0
  /\ results = <<>>
  /\ wider = FreshState

\* main calls simulate_permutation(order, ...): the code before the loops
SimEnter ==
  /\ pc = "main"
  /\ ordIdx <= Len(plan)
  /\ IF cache_lines < 0
     THEN /\ pc' = "error"
          /\ err' = "ValueError"
          /\ UNCHANGED <<vals, ref, cache, misses, accesses, trace, outcomes,
                         evictions, wider>>
     ELSE /\ cache' = EntryCache(cache)
          /\ wider' = [cache |-> EntryCache(wider.cache), misses |-> 0]
          /\ misses' = 0
          /\ accesses' = 0
          /\ trace' = <<>>
          /\ outcomes' = <<>>
          /\ evictions' = 0
          /\ vals' = <<0, 0, 0, 0>>
          /\ ref' = 1
          /\ pc' = IF N <= 0 THEN "return" ELSE "loop"
          /\ err' = err
  /\ UNCHANGED <<N, cache_lines, line_elems, plan, ordIdx, results>>

\* one pass of `for arr, coord in access_defs`, and the loop headers it reaches
AccessStep ==
  /\ pc = "loop"
  /\ IF line_elems = 0
     THEN /\ pc' = "error"
          /\ err' = "ZeroDivisionError"
          /\ UNCHANGED <<vals, ref, cache, misses, accesses, trace, outcomes,
                         evictions, wider>>
     ELSE LET tag == Tag(Addr(plan[ordIdx], vals, ref, N), line_elems)
              r   == LRUAccess(cache, tag, cache_lines)
          IN  IF r.err /= "none"
              THEN /\ pc' = "error"
                   /\ err' = r.err
                   /\ misses' = NewMisses(misses, r.hit, r.popped)
                   /\ UNCHANGED <<vals, ref, cache, accesses, trace, outcomes,
                                  evictions, wider>>
              ELSE /\ cache' = r.cache
                   /\ wider' = WiderStep(wider, tag, cache_lines)
                   /\ misses' = NewMisses(misses, r.hit, r.popped)
                   /\ accesses' = NewAccesses(accesses, r.hit)
                   /\ trace' = Append(trace, tag)
                   /\ outcomes' = Append(outcomes, Outcome(r.hit))
                   /\ evictions' = IF r.popped THEN evictions + 1 ELSE evictions
                   /\ err' = err
                   /\ IF ref < 4
                      THEN /\ ref' = ref + 1
                           /\ UNCHANGED <<vals, pc>>
                      ELSE IF LastVals(vals, N)
                           THEN /\ pc' = "return"
                                /\ UNCHANGED <<vals, ref>>
                           ELSE /\ vals' = NextVals(vals, N)
                                /\ ref' = 1
                                /\ pc' = pc
  /\ UNCHANGED <<N, cache_lines, line_elems, plan, ordIdx, results>>

\* return accesses, misses; main computes the rate and prints the row
SimReturn ==
  /\ pc = "return"
  /\ results' = Append(results, [order |-> plan[ordIdx], acc |-> accesses,
                                 miss |-> misses, rate |-> Rate(misses, accesses)])
  /\ ordIdx' = ordIdx + 1
  /\ pc' = "main"
  /\ UNCHANGED <<N, cache_lines, line_elems, plan, err, vals, ref,
                 cache, misses, accesses, trace, outcomes, evictions, wider>>

\* the for loop of main is exhausted
MainExit ==
  /\ pc = "main"
  /\ ordIdx > Len(plan)
  /\ pc' = "done"
  /\ UNCHANGED <<N, cache_lines, line_elems, plan, ordIdx, err, vals, ref,
                 cache, misses, accesses, trace, outcomes, evictions, results, wider>>

Next == SimEnter \/ AccessStep \/ SimReturn \/ MainExit

Spec == Init /\ [][Next]_vars

\* ------------------------------------------------- raw tag-sequence harness
\* a fresh simulator (empty deque, zeroed counters) fed tags directly
TagInit ==
  /\ N = 1
  /\ cache_lines \in 1..MaxLines
  /\ line_elems = 1
  /\ plan = <<>>
  /\ ordIdx = 1
  /\ pc = "tags"
  /\ err = "none"
  /\ vals = <<0, 0, 0, 0>>
  /\ ref = 1
  /\ cache = EntryCache(<<>>)
  /\ misses = 0
  /\ accesses = 0
  /\ trace = <<>>
  /\ outcomes = <<>>
  /\ evictions = 0
  /\ results = <<>>
  /\ wider = FreshState

\* the access step (membership test to accesses += 1) applied to a given tag
TagAccess ==
  /\ pc = "tags"
  /\ Len(trace) < MaxTraceLen
  /\ \E tag \in 1..MaxTag :
       LET r == LRUAccess(cache, tag, cache_lines)
       IN  IF r.err /= "none"
           THEN /\ pc' = "error"
                /\ err' = r.err
                /\ misses' = NewMisses(misses, r.hit, r.popped)
                /\ UNCHANGED <<cache, accesses, trace, outcomes, evictions, wider>>
           ELSE /\ cache' = r.cache
                /\ wider' = WiderStep(wider, tag, cache_lines)
                /\ misses' = NewMisses(misses, r.hit, r.popped)
                /\ accesses' = NewAccesses(accesses, r.hit)
                /\ trace' = Append(trace, tag)
                /\ outcomes' = Append(outcomes, Outcome(r.hit))
                /\ evictions' = IF r.popped THEN evictions + 1 ELSE evictions
                /\ UNCHANGED <<pc, err>>
  /\ UNCHANGED <<N, cache_lines, line_elems, plan, ordIdx, vals, ref, results>>

TagNext == TagAccess

SpecTags == TagInit /\ [][TagNext]_vars

\* the program's runs together with the raw tag sequences
BothNext == Next \/ TagAccess

SpecBoth == (Init \/ TagInit) /\ [][BothNext]_vars

\* ------------------------------------------------------------ rerun harness
\* simulate_permutation called MaxRuns times, on orderings chosen freely
RerunOrders == {Orderings[1], Orderings[2]}

RECURSIVE SeqsOf(_, _)
SeqsOf(S, n) ==
  IF n = 0 THEN { <<>> }
  ELSE {Append(s, x) : s \in SeqsOf(S, n - 1), x \in S}

RerunInit ==
  /\ N \in 1..MaxN
  /\ cache_lines \in 1..MaxLines
  /\ line_elems \in 1..MaxLineElems
  /\ plan \in SeqsOf(RerunOrders, MaxRuns)
  /\ ordIdx = 1
  /\ pc = "main"
  /\ err = "none"
  /\ vals = <<0, 0, 0, 0>>
  /\ ref = 1
  /\ cache = <<>>
  /\ misses = 0
  /\ accesses = 0
  /\ trace = <<>>
  /\ outcomes = <<>>
  /\ evictions = 0
  /\ results = <<>>
  /\ wider = FreshState

SpecRerun == RerunInit /\ [][Next]_vars

\* ------------------------------------------------------- trace properties
Pow4(n) == n * n * n * n

Counters(n) == (0..(n - 1)) \X (0..(n - 1)) \X (0..(n - 1)) \X (0..(n - 1))

\* the tags, and the addresses, that occur in the full trace of an ordering
DistinctTags(order, n, le) ==
  {Tag(Addr(order, v, r, n), le) : v \in Counters(n), r \in 1..4}

DistinctAddrs(order, n) ==
  {Addr(order, v, r, n) : v \in Counters(n), r \in 1..4}

DistinctTagCount ==
  [o \in Range(Orderings), n \in 1..MaxN, le \in 1..MaxLineElems |->
     Cardinality(DistinctTags(o, n, le))]

DistinctAddrCount ==
  [o \in Range(Orderings), n \in 1..MaxN |-> Cardinality(DistinctAddrs(o, n))]

InRun == pc \in {"loop", "return"}

\* ----------------------------------------------------------------- claims

\* the position of <<i1,i2,i3,i4>> in the iteration space, and the number of
\* steps the driver has taken: SimEnter, 4 * N^4 accesses, SimReturn per ordering
IterRank(v, n) == ((v[1] * n + v[2]) * n + v[3]) * n + v[4]

Progress ==
  (ordIdx - 1) * (4 * Pow4(N) + 2) +
    (CASE pc = "loop"   -> 4 * IterRank(vals, N) + ref
       [] pc = "return" -> 4 * Pow4(N) + 1
       [] pc = "done"   -> 1
       [] OTHER         -> 0)

\* C1: for every valid configuration and every ordering the simulation
\* terminates and returns accesses = 4 * N^4: each access, hit or miss,
\* adds exactly one to the access counter.  Termination: every step raises
\* the bounded measure Progress, and until main is done control is at a
\* position (main, loop, return) whose action is enabled.
C1_AccessCount ==
  /\ [](ValidConfig =>
          /\ InRun => accesses = Len(outcomes)
          /\ pc = "loop" => accesses = 4 * IterRank(vals, N) + (ref - 1)
          /\ pc = "return" => accesses = 4 * Pow4(N)
          /\ \A k \in 1..Len(results) : results[k].acc = 4 * Pow4(N)
          /\ Progress <= Len(plan) * (4 * Pow4(N) + 2) + 1
          /\ pc \in {"main", "loop", "return", "done"}
          /\ pc = "loop" => (ref \in 1..4 /\ \A k \in 1..4 : vals[k] \in 0..(N - 1)))
  /\ [][ValidConfig => (Progress' = Progress + 1 /\ accesses' <= accesses + 1)]_vars

C1_Witness ==
  /\ pc = "done" /\ ValidConfig /\ N = 2
  /\ Len(results) = 24 /\ results[24].acc = 64
  /\ "HIT" \in Range(outcomes) /\ "MISS" \in Range(outcomes)

\* C2: in every state of a run 0 <= misses <= accesses, and every reported
\* miss rate lies in [0, 1].
C2_MissBounds ==
  /\ pc /= "error" => (0 <= misses /\ misses <= accesses)
  /\ \A k \in 1..Len(results) :
       /\ 0 <= results[k].miss /\ results[k].miss <= results[k].acc
       /\ results[k].rate[2] > 0
       /\ 0 <= results[k].rate[1] /\ results[k].rate[1] <= results[k].rate[2]

C2_Witness ==
  /\ Len(results) >= 1
  /\ 0 < results[1].miss /\ results[1].miss < results[1].acc
  /\ pc = "loop" /\ 0 < misses /\ misses < accesses

\* C3: for every valid configuration and ordering the final miss count is at
\* least the number of distinct tags of the ordering's full trace; the first
\* access to each distinct tag is a miss.
C3_ColdMissBound ==
  ValidConfig =>
    /\ \A k \in 1..Len(results) :
         results[k].miss >= DistinctTagCount[results[k].order, N, line_elems]
    /\ pc = "return" =>
         /\ Range(trace) = DistinctTags(plan[ordIdx], N, line_elems)
         /\ misses >= Cardinality(Range(trace))
    /\ (InRun /\ outcomes /= <<>>) =>
         (outcomes[Len(outcomes)] = "HIT" =>
            \E j \in 1..(Len(trace) - 1) : trace[j] = trace[Len(trace)])

C3_Witness ==
  /\ ValidConfig /\ pc = "return"
  /\ misses > Cardinality(Range(trace))
  /\ Len(results) >= 1
  /\ results[1].miss > DistinctTagCount[results[1].order, N, line_elems]

\* C4: when cache_lines is at least the number of distinct tags of the trace,
\* nothing is ever evicted and misses equals the number of distinct tags; for
\* N = 2, line_elems = 1, cache_lines = 100 every ordering reports 64
\* accesses and as many misses as distinct addresses in its trace.
C4_NoCapacityMisses ==
  /\ (ValidConfig /\ InRun
        /\ cache_lines >= DistinctTagCount[plan[ordIdx], N, line_elems]) =>
       /\ evictions = 0
       /\ Range(cache) = Range(trace)
       /\ misses = Cardinality(Range(trace))
       /\ pc = "return" => misses = DistinctTagCount[plan[ordIdx], N, line_elems]
  /\ (N = 2 /\ line_elems = 1 /\ cache_lines >= 100) =>
       \A k \in 1..Len(results) :
         /\ results[k].acc = 64
         /\ results[k].miss = DistinctAddrCount[results[k].order, N]

C4_Witness ==
  /\ N = 2 /\ line_elems = 1 /\ cache_lines >= 100 /\ pc = "done"
  /\ Len(results) = 24
  /\ \A k \in 1..24 : results[k].acc = 64 /\ results[k].miss = 24

\* C5: from an empty cache with cache_lines = 3 the tag sequence
\* [1, 2, 3, 1, 4] yields MISS, MISS, MISS, HIT, MISS and leaves the cache,
\* LRU to MRU, as [3, 1, 4].
C5_LRUFixture ==
  (pc = "tags" /\ cache_lines = 3 /\ trace = <<1, 2, 3, 1, 4>>) =>
     /\ outcomes = <<"MISS", "MISS", "MISS", "HIT", "MISS">>
     /\ cache = <<3, 1, 4>>

C5_Witness ==
  /\ pc = "tags" /\ cache_lines = 3 /\ trace = <<1, 2, 3, 1, 4>>
  /\ cache = <<3, 1, 4>> /\ evictions = 1

\* C6 as stated: with cache_lines = 1, two consecutive accesses with
\* different tags are both misses, and two with the same tag are miss, hit.
C6_Original ==
  (pc = "tags" /\ cache_lines = 1) =>
    \A i \in 1..(Len(trace) - 1) :
      /\ trace[i] /= trace[i + 1] =>
           (outcomes[i] = "MISS" /\ outcomes[i + 1] = "MISS")
      /\ trace[i] = trace[i + 1] =>
           (outcomes[i] = "MISS" /\ outcomes[i + 1] = "HIT")

\* C6 amended: with cache_lines = 1, the second of two consecutive accesses
\* is a miss when the tags differ and a hit when they are equal; the first of
\* the two is a miss exactly when it is the first access of the run or its
\* tag differs from its predecessor's.
C6_Amended ==
  (pc = "tags" /\ cache_lines = 1) =>
    /\ \A i \in 1..(Len(trace) - 1) :
         /\ trace[i] /= trace[i + 1] => outcomes[i + 1] = "MISS"
         /\ trace[i] = trace[i + 1] => outcomes[i + 1] = "HIT"
         /\ outcomes[i] = "MISS" <=> (i = 1 \/ trace[i - 1] /= trace[i])
    /\ Len(trace) >= 1 => outcomes[1] = "MISS"

C6_Witness ==
  /\ pc = "tags" /\ cache_lines = 1
  /\ trace = <<1, 1, 2>> /\ outcomes = <<"MISS", "HIT", "MISS">>

\* C7: simulating the same ordering twice with the same parameters gives the
\* same (accesses, misses) whatever was simulated before or in between: each
\* simulation starts from an empty cache and zeroed counters.
C7_Deterministic ==
  /\ \A i, j \in 1..Len(results) :
       results[i].order = results[j].order =>
         (results[i].acc = results[j].acc /\ results[i].miss = results[j].miss)
  /\ (pc = "loop" /\ trace = <<>>) =>
       (cache = <<>> /\ misses = 0 /\ accesses = 0)

C7_Witness ==
  /\ Len(results) = 3
  /\ results[1].order = results[3].order
  /\ results[2].order /= results[1].order
  /\ results[2].miss /= results[1].miss
  /\ results[3].miss = results[1].miss /\ results[3].miss > 0

\* C8: a configuration with N <= 0, cache_lines <= 0 or line_elems <= 0 is
\* rejected at entry with a configuration error, before any simulation step
\* and without any ordering result.
C8_ConfigRejected ==
  ~ValidConfig =>
    /\ results = <<>>
    /\ pc \in {"main", "error"}
    /\ pc = "error" => err = "ConfigError"
    /\ accesses = 0 /\ misses = 0 /\ trace = <<>>

\* C9: the driver simulates exactly 24 pairwise distinct orderings, each a
\* permutation of a, b, c, d, in lexicographic sequence from abcd, abdc,
\* acbd, acdb to dcba, and reports the results in that order.
LabelRank(l) == CHOOSE i \in 1..Len(Labels) : Labels[i] = l

LexLess(s, t) ==
  \E i \in 1..4 :
    /\ \A j \in 1..(i - 1) : s[j] = t[j]
    /\ LabelRank(s[i]) < LabelRank(t[i])

\* the enumeration itself: 24 permutations of the labels, strictly increasing
LexEnumeration ==
  /\ Len(Orderings) = 24
  /\ \A k \in 1..24 :
       Len(Orderings[k]) = 4 /\ Range(Orderings[k]) = {"a", "b", "c", "d"}
  /\ \A k \in 1..23 : LexLess(Orderings[k], Orderings[k + 1])
  /\ Orderings[1] = <<"a", "b", "c", "d">> /\ Orderings[2] = <<"a", "b", "d", "c">>
  /\ Orderings[3] = <<"a", "c", "b", "d">> /\ Orderings[4] = <<"a", "c", "d", "b">>
  /\ Orderings[24] = <<"d", "c", "b", "a">>

C9_Enumeration ==
  /\ LexEnumeration
  /\ Len(plan) = 24
  /\ ordIdx <= 24 => plan[ordIdx] = Orderings[ordIdx]
  /\ Len(results) <= 24
  /\ results /= <<>> => results[Len(results)].order = Orderings[Len(results)]
  /\ pc = "done" =>
       (Len(results) = 24 /\ \A k \in 1..24 : results[k].order = Orderings[k])
  /\ ordIdx = Len(results) + 1

C9_Witness ==
  /\ pc = "done" /\ ValidConfig /\ Len(results) = 24
  /\ results[1].order = <<"a", "b", "c", "d">>
  /\ results[24].order = <<"d", "c", "b", "a">>

\* C10: after every access, for any valid configuration and any tag
\* sequence, the recency list holds no tag twice and is never longer than
\* cache_lines.
C10_CacheInvariant ==
  ValidConfig =>
    /\ Len(cache) <= cache_lines
    /\ \A i, j \in 1..Len(cache) : cache[i] = cache[j] => i = j

C10_Witness ==
  /\ pc = "tags" /\ Len(cache) = cache_lines /\ cache_lines >= 2
  /\ evictions > 0 /\ outcomes[Len(outcomes)] = "HIT"

\* C11: with a valid configuration the fourth reference of every iteration
\* (write X at (a,d,c)) is a HIT: the third reference has just put the same
\* tag at the MRU position.
C11_FourthRefHits ==
  (ValidConfig /\ InRun /\ Len(outcomes) > 0 /\ Len(outcomes) % 4 = 0) =>
     /\ outcomes[Len(outcomes)] = "HIT"
     /\ trace[Len(trace)] = trace[Len(trace) - 1]
     /\ cache[Len(cache)] = trace[Len(trace)]

C11_Witness ==
  /\ ValidConfig /\ cache_lines = 1 /\ pc = "loop" /\ ref = 1
  /\ Len(outcomes) >= 4
  /\ outcomes[Len(outcomes) - 1] = "MISS" /\ outcomes[Len(outcomes)] = "HIT"

\* C12: for 0 <= i,j,k < N the address of X lies in [0, N^3), of Y in
\* [N^3, 2N^3), of Z in [2N^3, 3N^3); every generated address is in
\* [0, 3N^3) and two references have the same address only if they name the
\* same array and the same coordinate triple.
Arrays == {"X", "Y", "Z"}

Coords(n) == (0..(n - 1)) \X (0..(n - 1)) \X (0..(n - 1))

ArrayIndex(arr) == CASE arr = "X" -> 0 [] arr = "Y" -> 1 [] arr = "Z" -> 2

LayoutDisjoint ==
  [n \in 1..MaxN |->
     \A arr \in Arrays, ijk \in Coords(n) :
       /\ ArrayIndex(arr) * Cube(n) <= FlatAddr(arr, ijk, n)
       /\ FlatAddr(arr, ijk, n) < (ArrayIndex(arr) + 1) * Cube(n)
       /\ \A arr2 \in Arrays, ijk2 \in Coords(n) :
            FlatAddr(arr, ijk, n) = FlatAddr(arr2, ijk2, n) =>
              (arr = arr2 /\ ijk = ijk2)]

C12_AddressLayout ==
  ValidConfig =>
    /\ LayoutDisjoint[N]
    /\ pc = "loop" =>
         LET ad == Addr(plan[ordIdx], vals, ref, N)
             ai == ArrayIndex(AccessArr(ref))
         IN  /\ 0 <= ad /\ ad < 3 * Cube(N)
             /\ ai * Cube(N) <= ad /\ ad < (ai + 1) * Cube(N)

C12_Witness ==
  /\ ValidConfig /\ N = 2 /\ pc = "loop" /\ ref = 2
  /\ Addr(plan[ordIdx], vals, ref, N) = 3 * Cube(N) - 1

\* a step that completes one access, and the tag it accessed
AccessDone == Len(trace') = Len(trace) + 1

AccessedTag == trace'[Len(trace')]

\* the list without the tag t, order kept
Without(c, t) == SelectSeq(c, LAMBDA x : x /= t)

\* C13: on an access to a tag that is not resident the miss counter grows by
\* exactly 1, the head is evicted iff the list length equals cache_lines
\* before the access, the tag is appended at the tail and the other resident
\* tags keep their relative order.
C13_MissStep ==
  [][(AccessDone /\ ~Contains(cache, AccessedTag)) =>
       /\ misses' = misses + 1
       /\ outcomes'[Len(outcomes')] = "MISS"
       /\ cache'[Len(cache')] = AccessedTag
       /\ IF Len(cache) = cache_lines
          THEN /\ evictions' = evictions + 1
               /\ ~Contains(cache', cache[1])
               /\ cache' = Append(Tail(cache), AccessedTag)
          ELSE /\ evictions' = evictions
               /\ cache' = Append(cache, AccessedTag)]_vars

C13_Witness ==
  /\ pc = "tags" /\ cache_lines = 2 /\ trace = <<1, 2, 3>>
  /\ cache = <<2, 3>> /\ misses = 3 /\ evictions = 1

\* C14: on an access to a resident tag the tag moves to the tail, the miss
\* counter, the set of resident tags and the list length are unchanged, the
\* other resident tags keep their relative order, and of the counters only
\* the access counter changes.
C14_HitStep ==
  [][(AccessDone /\ Contains(cache, AccessedTag)) =>
       /\ outcomes'[Len(outcomes')] = "HIT"
       /\ misses' = misses
       /\ evictions' = evictions
       /\ accesses' = accesses + 1
       /\ Len(cache') = Len(cache)
       /\ Range(cache') = Range(cache)
       /\ cache'[Len(cache')] = AccessedTag
       /\ Without(cache', AccessedTag) = Without(cache, AccessedTag)
       /\ cache' = Append(Without(cache, AccessedTag), AccessedTag)
       /\ results' = results]_vars

C14_Witness ==
  /\ pc = "tags" /\ cache_lines = 3 /\ trace = <<1, 2, 3, 1>>
  /\ cache = <<2, 3, 1>> /\ misses = 3 /\ accesses = 4

\* C15: with N >= 1, cache_lines >= 1 and line_elems >= 1 no step fails: the
\* eviction only runs on a non-empty list, the removal on a hit only for a
\* tag that is present, and the tag division never divides by zero.
C15_Total ==
  ValidConfig =>
    /\ pc /= "error" /\ err = "none"
    /\ pc = "loop" =>
         /\ line_elems /= 0
         /\ LET tag == Tag(Addr(plan[ordIdx], vals, ref, N), line_elems)
                r   == LRUAccess(cache, tag, cache_lines)
            IN  /\ r.err = "none"
                /\ r.popped => cache /= <<>>
                /\ (Len(cache) = cache_lines /\ ~Contains(cache, tag)) => cache /= <<>>
                /\ r.hit => Contains(cache, tag)
    /\ pc = "tags" =>
         \A tag \in 1..MaxTag :
           LET r == LRUAccess(cache, tag, cache_lines)
           IN  /\ r.err = "none"
               /\ r.popped => cache /= <<>>
               /\ r.hit => Contains(cache, tag)

C15_Witness ==
  /\ ValidConfig /\ pc = "done" /\ err = "none" /\ cache_lines = 1
  /\ evictions > 0 /\ "HIT" \in Range(outcomes) /\ Len(results) = 24

\* ---- a reference LRU: each resident tag mapped to the time of its last
\* access; a miss on a full cache evicts the tag with the oldest time
RefEvict(last) ==
  LET victim == CHOOSE t \in DOMAIN last : \A u \in DOMAIN last : last[t] <= last[u]
  IN  [t \in (DOMAIN last) \ {victim} |-> last[t]]

RefTouch(last, tag, time) ==
  [t \in (DOMAIN last) \cup {tag} |-> IF t = tag THEN time ELSE last[t]]

RECURSIVE RefOutcomes(_, _, _, _)
\* the outcomes of the accesses tr[i..] of the reference LRU in state last
RefOutcomes(tr, i, last, lines) ==
  IF i > Len(tr) THEN <<>>
  ELSE IF tr[i] \in DOMAIN last
       THEN <<"HIT">> \o RefOutcomes(tr, i + 1, RefTouch(last, tr[i], i), lines)
       ELSE LET kept == IF Cardinality(DOMAIN last) = lines THEN RefEvict(last) ELSE last
            IN  <<"MISS">> \o RefOutcomes(tr, i + 1, RefTouch(kept, tr[i], i), lines)

EmptyMap == [t \in {} |-> 0]

\* the previous access to the tag of access i (0 when there is none), and the
\* distinct tags accessed strictly between the two
PrevAccess(tr, i) ==
  IF \E p \in 1..(i - 1) : tr[p] = tr[i]
  THEN CHOOSE p \in 1..(i - 1) : tr[p] = tr[i] /\ \A q \in (p + 1)..(i - 1) : tr[q] /= tr[i]
  ELSE 0

TagsBetween(tr, p, i) == {tr[q] : q \in (p + 1)..(i - 1)}

\* C16: for every tag sequence and cache_lines >= 1 the recency list gives, at
\* every access, the outcome of the reference LRU; an access hits iff its tag
\* was accessed before and fewer than cache_lines distinct other tags were
\* accessed since.
C16_ExactLRU ==
  (pc = "tags" /\ cache_lines >= 1) =>
    /\ outcomes = RefOutcomes(trace, 1, EmptyMap, cache_lines)
    /\ \A i \in 1..Len(trace) :
         outcomes[i] = "HIT" <=>
           /\ PrevAccess(trace, i) > 0
           /\ Cardinality(TagsBetween(trace, PrevAccess(trace, i), i)) < cache_lines

C16_Witness ==
  /\ pc = "tags" /\ cache_lines = 2 /\ trace = <<1, 2, 1, 3, 2>>
  /\ outcomes = <<"MISS", "MISS", "HIT", "MISS", "MISS">>

\* ---- the trace as the claim describes it, written without the loop state:
\* the q-th iteration (q from 0) has counters the base-N digits of q
Digits(q, n) ==
  <<q \div (n * n * n), (q \div (n * n)) % n, (q \div n) % n, q % n>>

\* the value bound to label l: the counter at the position of l in o
Bound(o, iv, l) == iv[CHOOSE k \in 1..4 : o[k] = l]

\* the tag of the m-th access (m from 1) of ordering o
ExpectedTag(o, m, n, le) ==
  LET iv == Digits((m - 1) \div 4, n)
      a  == Bound(o, iv, "a")
      b  == Bound(o, iv, "b")
      c  == Bound(o, iv, "c")
      d  == Bound(o, iv, "d")
      r  == ((m - 1) % 4) + 1
      ad == CASE r = 1 -> n * n * n + (c * n + a) * n + d
              [] r = 2 -> 2 * n * n * n + (d * n + b) * n + c
              [] OTHER -> (a * n + d) * n + c
  IN  ad \div le

\* the tuples (a,b,c,d) of the iterations 0..q-1 of ordering o
Visited(o, q, n) ==
  {<<Bound(o, Digits(p, n), "a"), Bound(o, Digits(p, n), "b"),
     Bound(o, Digits(p, n), "c"), Bound(o, Digits(p, n), "d")>> : p \in 0..(q - 1)}

VisitsAll ==
  [o \in Range(Orderings), n \in 1..MaxN |->
     /\ Visited(o, Pow4(n), n) = Counters(n)
     /\ \A p, q \in 0..(Pow4(n) - 1) :
          (Bound(o, Digits(p, n), "a") = Bound(o, Digits(q, n), "a") /\
           Bound(o, Digits(p, n), "b") = Bound(o, Digits(q, n), "b") /\
           Bound(o, Digits(p, n), "c") = Bound(o, Digits(q, n), "c") /\
           Bound(o, Digits(p, n), "d") = Bound(o, Digits(q, n), "d")) => p = q]

\* C17: the tags fed to the cache for an ordering are, over (i1,i2,i3,i4) in
\* ascending lexicographic order with i4 innermost, the tags of Y(c,a,d),
\* Z(d,b,c), X(a,d,c), X(a,d,c) with the k-th label bound to ik; every tuple
\* (a,b,c,d) of [0,N)^4 is visited exactly once per ordering.
C17_TraceGeneration ==
  (ValidConfig /\ InRun) =>
    /\ Len(trace) > 0 =>
         trace[Len(trace)] = ExpectedTag(plan[ordIdx], Len(trace), N, line_elems)
    /\ pc = "loop" =>
         /\ vals = Digits(Len(trace) \div 4, N)
         /\ ref = (Len(trace) % 4) + 1
    /\ pc = "return" =>
         /\ Len(trace) = 4 * Pow4(N)
         /\ trace = [m \in 1..(4 * Pow4(N)) |->
                       ExpectedTag(plan[ordIdx], m, N, line_elems)]
         /\ VisitsAll[plan[ordIdx], N]

C17_Witness ==
  /\ ValidConfig /\ N = 2 /\ line_elems = 1 /\ pc = "return"
  /\ plan[ordIdx] = <<"c", "a", "d", "b">>
  /\ Len(trace) = 64
  /\ SubSeq(trace, 9, 12) = <<9, 20, 2, 2>>

\* C18: replaying the same trace with cache_lines = k and with k + 1, after
\* every access the resident tags of the k-line cache are among those of the
\* (k+1)-line cache, so every hit of the smaller cache is a hit of the larger
\* and the miss count does not grow with cache_lines.
C18_Inclusion ==
  ((pc = "tags" \/ (ValidConfig /\ InRun)) /\ cache_lines >= 1) =>
    /\ Range(cache) \subseteq Range(wider.cache)
    /\ wider.misses <= misses
    /\ Len(wider.cache) <= cache_lines + 1
    /\ outcomes /= <<>> =>
         (outcomes[Len(outcomes)] = "HIT" =>
            wider.cache[Len(wider.cache)] = trace[Len(trace)])

C18_Witness ==
  /\ pc = "tags" /\ cache_lines = 2 /\ trace = <<1, 2, 3, 1>>
  /\ misses = 4 /\ cache = <<3, 1>>
  /\ wider.misses = 3 /\ wider.cache = <<2, 3, 1>>

\* ---- how often each tag occurs in a trace
TagCounts(tr) ==
  [t \in Range(tr) |-> Cardinality({i \in 1..Len(tr) : tr[i] = t})]

\* how often each tag is produced over the whole iteration space of o
TraceTagCounts(o, n, le) ==
  [t \in DistinctTags(o, n, le) |->
     Cardinality({<<v, r>> \in Counters(n) \X (1..4) : Tag(Addr(o, v, r, n), le) = t})]

SameTagsAsFirst ==
  [o \in Range(Orderings), n \in 1..MaxN, le \in 1..MaxLineElems |->
     /\ DistinctTags(o, n, le) = DistinctTags(Orderings[1], n, le)
     /\ TraceTagCounts(o, n, le) = TraceTagCounts(Orderings[1], n, le)]

FirstTagCounts ==
  [n \in 1..MaxN, le \in 1..MaxLineElems |-> TraceTagCounts(Orderings[1], n, le)]

\* C19: for fixed N and line_elems all 24 orderings touch the same set of
\* distinct tags and the same multiset of addresses, in a different order;
\* when cache_lines is at least the number of distinct tags, all orderings
\* report the same miss count.
C19_SameTagsAllOrders ==
  ValidConfig =>
    /\ pc = "return" =>
         /\ SameTagsAsFirst[plan[ordIdx], N, line_elems]
         /\ Range(trace) = DistinctTags(Orderings[1], N, line_elems)
         /\ TagCounts(trace) = FirstTagCounts[N, line_elems]
    /\ cache_lines >= DistinctTagCount[Orderings[1], N, line_elems] =>
         \A i, j \in 1..Len(results) : results[i].miss = results[j].miss

C19_Witness ==
  /\ ValidConfig /\ pc = "done" /\ N = 2 /\ line_elems = 2
  /\ cache_lines >= 12 /\ Len(results) = 24
  /\ \A k \in 1..24 : results[k].miss = 12
  /\ trace /= [m \in 1..64 |-> ExpectedTag(Orderings[1], m, N, line_elems)]

\* ---- tags and arrays
\* the tags of the addresses of one array
ArrayTags(arr, n, le) == {Tag(FlatAddr(arr, ijk, n), le) : ijk \in Coords(n)}

\* no tag belongs to two arrays
StraddleFree ==
  [n \in 1..MaxN, le \in 1..MaxLineElems |->
     \A arr \in Arrays, arr2 \in Arrays :
       arr /= arr2 => ArrayTags(arr, n, le) \cap ArrayTags(arr2, n, le) = {}]

\* the array of the m-th access of a run
ArrOfAccess(m) == AccessArr(((m - 1) % 4) + 1)

\* the last access shares its tag only with earlier accesses to the same array
LastTagOwnArray ==
  \A i \in 1..(Len(trace) - 1) :
    trace[i] = trace[Len(trace)] => ArrOfAccess(i) = ArrOfAccess(Len(trace))

\* the access that brought in the line the last access found: the most
\* recent earlier MISS on the same tag
BroughtInBy ==
  CHOOSE p \in 1..(Len(trace) - 1) :
    /\ trace[p] = trace[Len(trace)] /\ outcomes[p] = "MISS"
    /\ \A q \in (p + 1)..(Len(trace) - 1) :
         ~(trace[q] = trace[Len(trace)] /\ outcomes[q] = "MISS")

\* a hit of the last access is on a line brought in by the same array
HitOwnArray ==
  outcomes[Len(outcomes)] = "HIT" =>
    ArrOfAccess(BroughtInBy) = ArrOfAccess(Len(trace))

\* C20 as stated: for every valid (N, line_elems) no tag is produced by
\* addresses of two different arrays, so an access to one array never hits
\* on a line brought in by an access to another array.
C20_Original ==
  (ValidConfig /\ InRun /\ Len(trace) > 0) =>
    /\ HitOwnArray
    /\ pc = "return" => StraddleFree[N, line_elems]

\* C20 amended: no tag is produced by addresses of two different arrays
\* exactly when line_elems divides N^3; for those configurations an access to
\* one array never hits on a line brought in by an access to another array.
C20_Amended ==
  (ValidConfig /\ InRun /\ Len(trace) > 0) =>
    /\ Cube(N) % line_elems = 0 => (LastTagOwnArray /\ HitOwnArray)
    /\ pc = "return" => (StraddleFree[N, line_elems] <=> (Cube(N) % line_elems = 0))

C20_Witness ==
  /\ ValidConfig /\ N = 2 /\ line_elems = 2 /\ pc = "return"
  /\ StraddleFree[N, line_elems]
  /\ 0 < misses /\ misses < accesses
  /\ \E i \in 1..(Len(trace) - 4) : trace[i] = trace[Len(trace)]

====
